---- MODULE Spec2Model ----
(***************************************************************************)
(* TransNeXt encoder/decoder of src/Network.py.                            *)
(*                                                                         *)
(* Four specifications share this module:                                  *)
(*   Spec      the life of one TransNeXt object: __init__ on a             *)
(*             configuration, then any sequence of forward calls, followed *)
(*             at the level of tensor shapes (every reshape, broadcast,    *)
(*             matmul and concatenation of the forward pass either yields  *)
(*             a shape or raises);                                         *)
(*   SpecCpb   get_relative_position_cpb on bounded grids, by content;     *)
(*   SpecMask  get_seqlen_and_mask on bounded grids, by content;           *)
(*   SpecAttn  the softmax of Attention.forward and of                     *)
(*             AggregatedAttention.forward for one query, by content.      *)
(***************************************************************************)
EXTENDS Integers, Sequences, FiniteSets, TLC

VARIABLES
    cfg,        \* the arguments of TransNeXt.__init__
    model,      \* what __init__ built (or that it raised)
    pc,         \* position of the current forward call
    input,      \* shape of the tensor given to forward
    x,          \* shape of the running tensor x of forward
    features,   \* shapes appended to `feature` by forward_features
    level,      \* loop variable i of forward_features / up_features
    trace,      \* what the current forward call has done so far
    cpbCalls,   \* calls of get_relative_position_cpb so far
    maskCalls,  \* calls of get_seqlen_and_mask so far
    cpbArgs,    \* SpecCpb: arguments of get_relative_position_cpb
    cpbOut,     \* SpecCpb: its result
    maskArgs,   \* SpecMask: arguments of get_seqlen_and_mask
    maskOut,    \* SpecMask: its result
    attnArgs,   \* SpecAttn: one query's scores
    attnOut     \* SpecAttn: that query's attention weights

lifeVars == <<cfg, model, pc, input, x, features, level, trace, cpbCalls, maskCalls>>
cpbVars  == <<cpbArgs, cpbOut>>
maskVars == <<maskArgs, maskOut>>
attnVars == <<attnArgs, attnOut>>
vars == <<lifeVars, cpbVars, maskVars, attnVars>>

-----------------------------------------------------------------------------
(* Bounds of the model.                                                    *)

\* largest height/width of a query, key or pretraining grid in SpecCpb
MaxGrid == 3
\* largest height/width of the feature grid in SpecMask
MaxRes == 5
\* window sizes 1, 3, .., 2*MaxHalfWin+1 in SpecMask
MaxHalfWin == 2
\* largest height/width of the feature grid in SpecAttn
MaxAttnRes == 2
\* largest batch size of a forward call
MaxBatch == 2

-----------------------------------------------------------------------------
(* Arithmetic helpers.                                                     *)

Abs(n) == IF n < 0 THEN -n ELSE n

Sign(n) == IF n < 0 THEN -1 ELSE IF n > 0 THEN 1 ELSE 0

Max(a, b) == IF a >= b THEN a ELSE b

RECURSIVE SumSeq(_)
SumSeq(s) == IF s = <<>> THEN 0 ELSE Head(s) + SumSeq(Tail(s))

RECURSIVE Prod(_)
Prod(s) == IF s = <<>> THEN 1 ELSE Head(s) * Prod(Tail(s))

-----------------------------------------------------------------------------
(* get_relative_position_cpb, lines 47-72.                                 *)
(* Coordinates are exact rationals.  An axis coordinate is kept doubled    *)
(* (the adaptive average of consecutive integers is a half-integer), and a *)
(* raw relative offset is kept as its numerator over the call's fixed      *)
(* denominator 2*(pretrain-1).                                             *)

\* torch.arange(query_size), doubled: coordinate i is 2*i            (l.51/53)
AxisQ2(n) == [i \in 1..n |-> 2 * (i - 1)]

\* F.adaptive_avg_pool1d(arange(L), out), doubled: output j averages
\* arange[floor(j*L/out) : ceil((j+1)*L/out)]                        (l.52/54)
AxisK2(L, out) ==
    [j \in 1..out |->
        LET start == ((j - 1) * L) \div out
            end   == (j * L + out - 1) \div out
        IN  start + end - 1]

\* numerator of (axis_q - axis_k) / (pretrain - 1) * 8 over 2*(pretrain-1)
\*                                                                   (l.63/64)
RelNum(q2, k2) == (q2 - k2) * 8

\* relative_hw: one row <<h, w>> per (query, key) pair, pairs flattened
\* row-major as meshgrid + reshape([-1]) + view(-1, 2) lay them out  (l.55-65)
relative_hw(query_size, key_size) ==
    LET qh == AxisQ2(query_size[1])
        qw == AxisQ2(query_size[2])
        kh == AxisK2(query_size[1], key_size[1])
        kw == AxisK2(query_size[2], key_size[2])
        Q  == query_size[1] * query_size[2]
        K  == key_size[1] * key_size[2]
    IN  [n \in 1..(Q * K) |->
            LET q  == (n - 1) \div K
                k  == (n - 1) % K
                qi == q \div query_size[2]
                qj == q % query_size[2]
                ki == k \div key_size[2]
                kj == k % key_size[2]
            IN  <<RelNum(qh[qi + 1], kh[ki + 1]), RelNum(qw[qj + 1], kw[kj + 1])>>]

\* lexicographic order of two rows (torch.unique sorts the rows)     (l.67)
RowLess(a, b) == a[1] < b[1] \/ (a[1] = b[1] /\ a[2] < b[2])

\* torch.unique(rows, return_inverse=True, dim=0): the distinct rows in
\* ascending order, and for every input row the 0-based place of its value
\*                                                                   (l.67)
Unique(rows) ==
    LET S == {rows[n] : n \in DOMAIN rows}
        Rank(r) == Cardinality({s \in S : RowLess(s, r)})
    IN  [table |-> [t \in 1..Cardinality(S) |-> CHOOSE r \in S : Rank(r) = t - 1],
         inverse |-> [n \in DOMAIN rows |-> Rank(rows[n])]]

\* Compress with the sign lost: log2(|v| + 1) / log2(8)
Compress_NoSign(num, den) ==
    [sgn |-> Sign(Abs(num)), arg_num |-> Abs(num) + den, arg_den |-> den]

\* sign(v) * log2(|v| + 1) / log2(8) of the value v = num/den, den > 0.
\* The logarithm is kept symbolic: the result denotes
\* sgn * log2(arg_num / arg_den) / log2(8).                          (l.69-70)
Compress(num, den) ==
    [sgn |-> Sign(num), arg_num |-> Abs(num) + den, arg_den |-> den]

\* the log compression applied to both columns of a row              (l.69-70)
CompressRow(row, pretrain_size) ==
    <<Compress(row[1], 2 * (pretrain_size[1] - 1)),
      Compress(row[2], 2 * (pretrain_size[2] - 1))>>

\* get_relative_position_cpb: returns (idx_map, relative_coords_table)
\*                                                                   (l.48-72)
get_relative_position_cpb(query_size, key_size, pretrain_size) ==
    LET u == Unique(relative_hw(query_size, key_size))
    IN  [idx_map |-> u.inverse,
         relative_coords_table |->
            [t \in DOMAIN u.table |-> CompressRow(u.table[t], pretrain_size)]]

-----------------------------------------------------------------------------
(* get_seqlen_and_mask, lines 73-79.                                       *)

\* output extent of a sliding window of size k, padding p, stride 1  (l.75-76)
UnfoldExtent(n, k, p) == n + 2 * p - k + 1

\* PaddedOnes with the border padded by ones instead of zeros
PaddedOnes_OnesPad(H, W, p, r, c) == 1

\* torch.ones([1,1,H,W]) seen through the zero padding of F.unfold: entry
\* (r, c) of the padded image, 0-based                               (l.75-76)
PaddedOnes(H, W, p, r, c) ==
    IF r >= p /\ r < p + H /\ c >= p /\ c < p + W THEN 1 ELSE 0

\* F.unfold(ones, window_size, padding=window_size//2): attn_map[s][l], the
\* value seen in slot s of the window of output position l           (l.75-76)
attn_map(input_resolution, window_size) ==
    LET H  == input_resolution[1]
        W  == input_resolution[2]
        p  == window_size \div 2
        Wo == UnfoldExtent(W, window_size, p)
        L  == UnfoldExtent(H, window_size, p) * Wo
    IN  [s \in 1..(window_size * window_size) |->
            [l \in 1..L |->
                PaddedOnes(H, W, p,
                           ((l - 1) \div Wo) + ((s - 1) \div window_size),
                           ((l - 1) % Wo) + ((s - 1) % window_size))]]

\* get_seqlen_and_mask: attn_local_length[l] = attn_map.sum(-2), and
\* attn_mask[l][s] = (attn_map permuted to [L, w*w]) == 0           (l.74-79)
get_seqlen_and_mask(input_resolution, window_size) ==
    LET m == attn_map(input_resolution, window_size)
        L == Len(m[1])
    IN  [attn_local_length |->
            [l \in 1..L |-> SumSeq([s \in DOMAIN m |-> m[s][l]])],
         attn_mask |->
            [l \in 1..L |-> [s \in DOMAIN m |-> m[s][l] = 0]]]

-----------------------------------------------------------------------------
(* The softmax of the two attention modules, for one query of one head of  *)
(* one batch element.  A score is an integer (in units of ln 2, so that    *)
(* exp is an integer power of two) or -inf; a weight is an exact rational  *)
(* <<numerator, denominator>>.                                             *)

Fin(v) == [fin |-> TRUE, v |-> v]

\* float('-inf')                                                     (l.154)
NegInf == [fin |-> FALSE, v |-> 0]

RECURSIVE Pow2(_)
Pow2(n) == IF n <= 0 THEN 1 ELSE 2 * Pow2(n - 1)

RECURSIVE Gcd(_, _)
Gcd(a, b) == IF b = 0 THEN a ELSE Gcd(b, a % b)

\* a rational in lowest terms
Rat(n, d) == LET g == Gcd(Abs(n), d) IN IF g = 0 THEN <<n, d>> ELSE <<n \div g, d \div g>>

RatAdd(a, b) == Rat(a[1] * b[2] + b[1] * a[2], a[2] * b[2])

RECURSIVE RatSum(_)
RatSum(s) == IF s = <<>> THEN <<0, 1>> ELSE RatAdd(Head(s), RatSum(Tail(s)))

\* exp of a score, relative to the smallest finite score `lo`; exp(-inf) = 0
Exp(s, lo) == IF s.fin THEN Pow2(s.v - lo) ELSE 0

\* tensor.softmax(dim=-1) over one row of scores: exp(s_i) / sum_j exp(s_j)
\*                                                              (l.172, l.226)
softmax(scores) ==
    LET finite == {scores[i].v : i \in {j \in DOMAIN scores : scores[j].fin}}
        lo == IF finite = {} THEN 0 ELSE CHOOSE m \in finite : \A n \in finite : m <= n
        e  == [i \in DOMAIN scores |-> Exp(scores[i], lo)]
        z  == SumSeq(e)
    IN  [i \in DOMAIN scores |-> Rat(e[i], z)]

\* tensor.masked_fill(mask, float('-inf')) on one row               (l.154)
masked_fill(row, mask) ==
    [s \in DOMAIN row |-> IF mask[s] THEN NegInf ELSE row[s]]

\* nn.Dropout(attn_drop) with the default rate 0 (or in eval mode)  (l.173, l.227)
attn_drop(weights) == weights

\* Attention.forward, lines 225-227: the weights of one query over its N keys;
\* scores[k] stands for the scaled cosine score plus rel_bias
PlainWeights(scores) ==
    attn_drop(softmax([k \in DOMAIN scores |-> Fin(scores[k])]))

\* AggregatedWeights with one softmax per branch instead of one joint softmax
AggregatedWeights_PerBranch(padding_mask, l, local, pool) ==
    LET attn_local == softmax(masked_fill([s \in DOMAIN local |-> Fin(local[s])],
                                          padding_mask[l]))
        attn_pool  == softmax([k \in DOMAIN pool |-> Fin(pool[k])])
    IN  [attn       |-> attn_local \o attn_pool,
         attn_local |-> attn_local,
         attn_pool  |-> attn_pool]

\* AggregatedAttention.forward, lines 153-176: the weights of the query at
\* position l.  local[s] stands for q.k_local + relative_pos_bias_local in
\* slot s, pool[k] for q.k_pool + pool_bias; padding_mask is the buffer built
\* by __init__.
AggregatedWeights(padding_mask, l, local, pool) ==
    LET attn_local == masked_fill([s \in DOMAIN local |-> Fin(local[s])], padding_mask[l])
        attn_pool  == [k \in DOMAIN pool |-> Fin(pool[k])]
        attn       == attn_drop(softmax(attn_local \o attn_pool))
    IN  [attn       |-> attn,
         attn_local |-> SubSeq(attn, 1, Len(local)),
         attn_pool  |-> SubSeq(attn, Len(local) + 1, Len(attn))]

-----------------------------------------------------------------------------
(* Tensor shapes.  A shape is a sequence of sizes; Err stands for the      *)
(* exception an operation raises on shapes it does not accept.  Every      *)
(* operation passes Err on.                                                *)

Err == <<-1>>

IsErr(s) == s = Err

\* the shape two operands of an elementwise operation broadcast to
Broadcast(a, b) ==
    IF IsErr(a) \/ IsErr(b) THEN Err
    ELSE LET n  == Max(Len(a), Len(b))
             pa == [i \in 1..n |-> IF i <= n - Len(a) THEN 1 ELSE a[i - (n - Len(a))]]
             pb == [i \in 1..n |-> IF i <= n - Len(b) THEN 1 ELSE b[i - (n - Len(b))]]
         IN  IF \A i \in 1..n : pa[i] = pb[i] \/ pa[i] = 1 \/ pb[i] = 1
             THEN [i \in 1..n |-> IF pa[i] = 1 THEN pb[i] ELSE pa[i]]
             ELSE Err

\* a @ b for operands of rank >= 2: the batch dimensions broadcast, the inner
\* dimensions must agree
Matmul(a, b) ==
    IF IsErr(a) \/ IsErr(b) THEN Err
    ELSE LET na == Len(a)
             nb == Len(b)
             batch == Broadcast(SubSeq(a, 1, na - 2), SubSeq(b, 1, nb - 2))
         IN  IF a[na] # b[nb - 1] \/ IsErr(batch) THEN Err
             ELSE batch \o <<a[na - 1], b[nb]>>

\* tensor.reshape(target) / tensor.view(target) with every size given
Reshape(a, target) ==
    IF IsErr(a) THEN Err
    ELSE IF Prod(a) = Prod(target) THEN target ELSE Err

\* tensor.view(-1, rest...): the leading size is inferred
ViewInfer(numel, rest) ==
    IF Prod(rest) > 0 /\ numel % Prod(rest) = 0
    THEN <<numel \div Prod(rest)>> \o rest
    ELSE Err

\* tensor.unsqueeze(-2)
Unsqueeze2(a) ==
    IF IsErr(a) THEN Err
    ELSE SubSeq(a, 1, Len(a) - 1) \o <<1, a[Len(a)]>>

\* tensor.squeeze(-2): drops the last but one dimension when its size is 1
Squeeze2(a) ==
    IF IsErr(a) THEN Err
    ELSE IF a[Len(a) - 1] = 1 THEN SubSeq(a, 1, Len(a) - 2) \o <<a[Len(a)]>> ELSE a

\* tensor.transpose(-2, -1)
TransposeLast(a) ==
    IF IsErr(a) THEN Err
    ELSE SubSeq(a, 1, Len(a) - 2) \o <<a[Len(a)], a[Len(a) - 1]>>

\* torch.cat([a, b], dim=d): equal rank, equal sizes except in dimension d
Cat(a, b, d) ==
    IF IsErr(a) \/ IsErr(b) THEN Err
    ELSE IF Len(a) = Len(b) /\ \A i \in 1..Len(a) : i # d => a[i] = b[i]
         THEN [a EXCEPT ![d] = a[d] + b[d]]
         ELSE Err

\* tensor.masked_fill(mask, v): the mask must broadcast to the tensor's shape
MaskedFillShape(a, mask) ==
    IF Broadcast(a, mask) = a THEN a ELSE Err

\* nn.Conv2d(cin, cout, k, stride, padding) on [B, C, H, W]
Conv2d(a, cin, cout, k, stride, pad) ==
    IF IsErr(a) THEN Err
    ELSE LET Ho == ((a[3] + 2 * pad - k) \div stride) + 1
             Wo == ((a[4] + 2 * pad - k) \div stride) + 1
         IN  IF a[2] # cin \/ a[3] + 2 * pad < k \/ a[4] + 2 * pad < k THEN Err
             ELSE <<a[1], cout, Ho, Wo>>

-----------------------------------------------------------------------------
(* Construction: TransNeXt.__init__ and the modules it builds.             *)

\* Python's None (window_size of a plain stage, pretrain_size by default)
None == 0

\* num_stages, fixed by the indices up_features hard-codes         (l.331, l.449)
num_stages == 4

\* input_resolution of stage i (1-based): img_size // 2**(i+1)     (l.343, l.356)
StageResolution(c, i) == c.img_size \div Pow2(i + 1)

\* the arguments of get_relative_position_cpb for stage i          (l.343-345)
CpbArgsOf(c, i) ==
    LET pre == IF c.pretrain_size = None THEN c.img_size ELSE c.pretrain_size
        r   == StageResolution(c, i)
        k   == c.img_size \div Pow2(num_stages + 1)
        p   == pre \div Pow2(i + 1)
    IN  [query_size |-> <<r, r>>, key_size |-> <<k, k>>, pretrain_size |-> <<p, p>>]

\* the buffers relative_pos_index{i}, relative_coords_table{i}: the index
\* map holds one entry per (query, key) pair; the buffers are the value of
\* get_relative_position_cpb at builtFrom                          (l.343-348)
StageBuffers(c, i) ==
    LET a == CpbArgsOf(c, i)
    IN  [builtFrom |-> a,
         index_numel |-> a.query_size[1] * a.query_size[2] * a.key_size[1] * a.key_size[2]]

\* OverlapPatchEmbed.__init__ for stage i                          (l.350-353, l.276-284)
PatchEmbedOf(c, i) ==
    LET patch  == IF i = 1 THEN c.patch_size * 2 - 1 ELSE 3
        stride == IF i = 1 THEN c.patch_size ELSE 2
    IN  [kernel |-> patch, stride |-> stride, padding |-> patch \div 2,
         in_chans |-> IF i = 1 THEN c.in_chans ELSE c.embed_dims[i - 1],
         embed_dim |-> c.embed_dims[i],
         ok |-> patch > stride]

\* AttnKind choosing by the window size instead of the pooling ratio
AttnKind_ByWindow(sr_ratio, window_size) ==
    IF window_size = None THEN "plain" ELSE "aggregated"

\* Block.__init__ chooses the attention module by sr_ratio         (l.241-258)
AttnKind(sr_ratio, window_size) ==
    IF sr_ratio = 1 THEN "plain" ELSE "aggregated"

\* shapes of the buffers AggregatedAttention.__init__ derives from
\* get_seqlen_and_mask: attn_map is [1, w*w, L]; padding_mask is its
\* [L, w*w] view; local_seq_length is sum(-2).squeeze().unsqueeze(-1), that
\* is [L, 1], or [1] when L = 1                                    (l.74-79, l.128-131)
SeqlenMaskShapes(input_resolution, window_size) ==
    LET p == window_size \div 2
        L == UnfoldExtent(input_resolution[1], window_size, p)
             * UnfoldExtent(input_resolution[2], window_size, p)
    IN  [seq_length_scale |-> IF L = 1 THEN <<1>> ELSE <<L, 1>>,
         padding_mask |-> <<L, window_size * window_size>>]

\* the exception Attention.__init__ / AggregatedAttention.__init__ raises on
\* these arguments, "" when it raises none                         (l.85, l.93, l.192)
AttnError(kind, dim, num_heads, window_size) ==
    IF dim % num_heads # 0 THEN "dim should be divided by num_heads"
    ELSE IF kind = "aggregated" /\ window_size = None THEN "TypeError: None % 2"
    ELSE IF kind = "aggregated" /\ window_size % 2 # 1 THEN "window size must be odd"
    ELSE ""

\* the attention module of one Block of stage i                    (l.82-136, l.189-213)
AttnOf(c, i) ==
    LET kind == AttnKind(c.sr_ratios[i], c.window_size[i])
        dim  == c.embed_dims[i]
        h    == c.num_heads[i]
        r    == StageResolution(c, i)
    IN  IF kind = "plain"
        THEN [kind |-> "plain", dim |-> dim, num_heads |-> h, head_dim |-> dim \div h]
        ELSE LET w == c.window_size[i]
                 g == SeqlenMaskShapes(<<r, r>>, w)
             IN  [kind |-> "aggregated", dim |-> dim, num_heads |-> h,
                  head_dim |-> dim \div h, sr_ratio |-> c.sr_ratios[i],
                  window_size |-> w, local_len |-> w * w,
                  pool_H |-> r \div c.sr_ratios[i], pool_W |-> r \div c.sr_ratios[i],
                  pool_len |-> (r \div c.sr_ratios[i]) * (r \div c.sr_ratios[i]),
                  seq_length_scale |-> g.seq_length_scale,
                  padding_mask |-> g.padding_mask]

\* the exception the loop body of stage i raises, "" when none: the patch
\* embedding is built before the blocks                            (l.341-366)
StageError(c, i) ==
    IF ~PatchEmbedOf(c, i).ok THEN "Set larger patch_size than stride"
    ELSE IF c.depths[i] = 0 THEN ""
    ELSE AttnError(AttnKind(c.sr_ratios[i], c.window_size[i]),
                   c.embed_dims[i], c.num_heads[i], c.window_size[i])

\* what the loop body of stage i registers                         (l.341-366)
StageOf(c, i) ==
    [buffers |-> StageBuffers(c, i),
     patch_embed |-> PatchEmbedOf(c, i),
     block |-> [j \in 1..c.depths[i] |-> AttnOf(c, i)],
     norm |-> c.embed_dims[i]]

\* number of get_seqlen_and_mask calls made by the blocks of stages 1..n:
\* one per AggregatedAttention module                              (l.128)
RECURSIVE MaskCallsUpTo(_, _)
MaskCallsUpTo(c, n) ==
    IF n = 0 THEN 0
    ELSE MaskCallsUpTo(c, n - 1)
         + (IF AttnKind(c.sr_ratios[n], c.window_size[n]) = "aggregated"
            THEN c.depths[n] ELSE 0)

\* out_channels of the final 1x1 convolution outc                  (l.375)
OutcChannels(c) == 1

\* the object __init__ leaves behind                               (l.327-393)
ModelOf(c) ==
    [status |-> "built",
     num_classes |-> c.num_classes,
     stages |-> [i \in 1..num_stages |-> StageOf(c, i)],
     up  |-> [i \in 1..(num_stages - 1) |->
                 [in_channels |-> c.embed_dims[5 - i], out_channels |-> c.embed_dims[4 - i]]],
     cov |-> [i \in 1..(num_stages - 1) |->
                 [in_channels |-> c.embed_dims[5 - i], out_channels |-> c.embed_dims[4 - i]]],
     outc |-> [in_channels |-> c.embed_dims[1], out_channels |-> OutcChannels(c)]]

\* the first stage whose loop body raises, 0 when none does
FirstBadStage(c) ==
    IF \A i \in 1..num_stages : StageError(c, i) = "" THEN 0
    ELSE CHOOSE i \in 1..num_stages :
            /\ StageError(c, i) # ""
            /\ \A j \in 1..(i - 1) : StageError(c, j) = ""

-----------------------------------------------------------------------------
(* The forward pass, by shape.  Tokens are <<B, N, C>>, maps <<B, C, H, W>>. *)
(* A value used several times is passed to an operator as its parameter.   *)

\* q_norm_scaled = (q_norm + query_embedding) * softplus(temperature)
\*                 * seq_length_scale                              (l.142-143)
Agg_q_norm_scaled(att, xs) ==
    Broadcast(Broadcast(Broadcast(<<xs[1], att.num_heads, xs[2], att.head_dim>>,
                                  <<att.num_heads, 1, att.head_dim>>),
                        <<att.num_heads, 1, 1>>),
              att.seq_length_scale)

\* k_local (and v_local, of the same shape): kv is laid out as a map,
\* unfolded, and reshaped to [B, 2h, hd, local_len, N]            (l.146-150)
Agg_k_local(att, xs, H, W) ==
    LET w == att.window_size
        kv_local == Reshape(<<xs[1], 2 * xs[3], xs[2]>>, <<xs[1], 2 * xs[3], H, W>>)
        unfolded == <<xs[1], 2 * xs[3] * w * w,
                      UnfoldExtent(H, w, w \div 2) * UnfoldExtent(W, w, w \div 2)>>
    IN  IF IsErr(kv_local) THEN Err
        ELSE IF IsErr(Reshape(unfolded, <<xs[1], 2 * att.num_heads, att.head_dim,
                                          att.local_len, xs[2]>>))
        THEN Err
        ELSE <<xs[1], att.num_heads, xs[2], att.head_dim, att.local_len>>

\* attn_local = ((q_norm_scaled.unsqueeze(-2) @ k_local).squeeze(-2)
\*               + relative_pos_bias_local.unsqueeze(1)).masked_fill(padding_mask, -inf)
\*                                                                 (l.153-154)
Agg_attn_local(att, q_norm_scaled, k_local) ==
    MaskedFillShape(
        Broadcast(Squeeze2(Matmul(Unsqueeze2(q_norm_scaled), k_local)),
                  <<att.num_heads, 1, att.local_len>>),
        att.padding_mask)

\* k_pool (and v_pool, of the same shape): the map is pooled to
\* (pool_H, pool_W) and reshaped to [B, -1, pool_len]              (l.157-163)
Agg_k_pool(att, xs) ==
    IF att.pool_len = 0 THEN Err
    ELSE IF IsErr(Reshape(<<xs[1], xs[3], att.pool_H, att.pool_W>>,
                          <<xs[1], xs[3], att.pool_len>>))
    THEN Err
    ELSE <<xs[1], att.num_heads, att.pool_len, att.head_dim>>

\* pool_bias = cpb(table).transpose(0, 1)[:, relative_pos_index.view(-1)]
\*             .view(-1, N, pool_len)                              (l.166-167)
Agg_pool_bias(att, xs, index_numel) ==
    IF att.pool_len = 0 THEN Err
    ELSE ViewInfer(att.num_heads * index_numel, <<xs[2], att.pool_len>>)

\* attn = cat([attn_local, attn_pool], dim=-1).softmax(dim=-1)     (l.169-173)
Agg_attn(att, xs, H, W, index_numel, q_norm_scaled) ==
    Cat(Agg_attn_local(att, q_norm_scaled, Agg_k_local(att, xs, H, W)),
        Broadcast(Matmul(q_norm_scaled, TransposeLast(Agg_k_pool(att, xs))),
                  Agg_pool_bias(att, xs, index_numel)),
        4)

\* x_local + x_pool from the two parts attn is split into          (l.176-179)
Agg_values(att, xs, H, W, attn) ==
    IF IsErr(attn) THEN Err
    ELSE Broadcast(
            Squeeze2(Matmul(
                Unsqueeze2(Broadcast(
                    Broadcast(Matmul(<<xs[1], att.num_heads, xs[2], att.head_dim>>,
                                     <<att.num_heads, att.head_dim, att.local_len>>),
                              <<att.num_heads, 1, att.local_len>>),
                    [attn EXCEPT ![4] = att.local_len])),
                TransposeLast(Agg_k_local(att, xs, H, W)))),
            Matmul([attn EXCEPT ![4] = att.pool_len], Agg_k_pool(att, xs)))

\* (...).transpose(1, 2).reshape(B, N, C), then proj               (l.179-185, l.228-231)
ProjectHeads(att, xs, out) ==
    IF xs[3] # att.dim \/ IsErr(out) THEN Err
    ELSE Reshape(<<out[1], out[3], out[2], out[4]>>, xs)

\* AggregatedAttention.forward                                     (l.138-185)
AggregatedAttention_forward(att, xs, H, W, index_numel) ==
    ProjectHeads(att, xs,
        Agg_values(att, xs, H, W,
            Agg_attn(att, xs, H, W, index_numel, Agg_q_norm_scaled(att, xs))))

\* attn @ v, with attn = scaled q @ k^T + rel_bias; q, k and v are
\* [B, h, N, hd], rel_bias is the index map viewed as [-1, N, N], and
\* seq_length_scale is a scalar                                    (l.217-228)
Attn_values(att, qkv, N, index_numel) ==
    Matmul(Broadcast(Matmul(Broadcast(Broadcast(qkv, <<att.num_heads, 1, att.head_dim>>),
                                      <<att.num_heads, 1, 1>>),
                            TransposeLast(qkv)),
                     ViewInfer(att.num_heads * index_numel, <<N, N>>)),
           qkv)

\* Attention.forward                                               (l.215-231)
Attention_forward(att, xs, H, W, index_numel) ==
    ProjectHeads(att, xs,
        Attn_values(att, <<xs[1], att.num_heads, xs[2], att.head_dim>>, xs[2], index_numel))

\* ConvolutionalGLU.forward with DWConv.forward: the gate path is viewed as
\* [B, hidden, H, W] and flattened back; hidden = int(2 * int(dim * 4) / 3)
\*                                                                 (l.17-23, l.31, l.38-44)
ConvolutionalGLU_forward(dim, xs, H, W) ==
    IF IsErr(xs) THEN Err
    ELSE IF xs[3] # dim THEN Err
    ELSE IF IsErr(Reshape(<<xs[1], xs[2], (2 * (dim * 4)) \div 3>>,
                          <<xs[1], (2 * (dim * 4)) \div 3, H, W>>))
    THEN Err
    ELSE xs

\* x = x + drop_path(mlp(norm2(x), H, W))                          (l.268)
Block_mlp(att, x1, H, W) ==
    Broadcast(x1, ConvolutionalGLU_forward(att.dim, x1, H, W))

\* Block.forward                                                   (l.266-270)
Block_forward(att, xs, H, W, index_numel) ==
    Block_mlp(att,
              Broadcast(xs, IF att.kind = "plain"
                            THEN Attention_forward(att, xs, H, W, index_numel)
                            ELSE AggregatedAttention_forward(att, xs, H, W, index_numel)),
              H, W)

\* for blk in block: x = blk(x, H, W, ...)                         (l.435-436, l.457-458)
RECURSIVE RunBlocks(_, _, _, _, _)
RunBlocks(blocks, xs, H, W, index_numel) ==
    IF blocks = <<>> \/ IsErr(xs) THEN xs
    ELSE RunBlocks(Tail(blocks), Block_forward(Head(blocks), xs, H, W, index_numel),
                   H, W, index_numel)

\* OverlapPatchEmbed.forward: the map the convolution yields       (l.286-292)
PatchEmbed_forward(pe, xmap) ==
    Conv2d(xmap, pe.in_chans, pe.embed_dim, pe.kernel, pe.stride, pe.padding)

\* norm(x) followed by reshape(B, H, W, -1).permute(0, 3, 1, 2)    (l.437-439, l.459-461)
NormToMap(dim, xs, B, H, W) ==
    IF IsErr(xs) THEN Err
    ELSE IF xs[3] # dim \/ (xs[1] * xs[2] * xs[3]) % (B * H * W) # 0 THEN Err
    ELSE <<B, (xs[1] * xs[2] * xs[3]) \div (B * H * W), H, W>>

\* the blocks and the normalization of stage record st on the map e
\*                                                                 (l.433-439, l.451-461)
StageBlocks(st, e) ==
    IF IsErr(e) THEN Err
    ELSE NormToMap(st.norm,
                   RunBlocks(st.block, <<e[1], e[3] * e[4], e[2]>>, e[3], e[4],
                             st.buffers.index_numel),
                   e[1], e[3], e[4])

\* one iteration of forward_features' loop, e being the map the patch
\* embedding yields: the grid H x W, and the map appended to `feature`
\*                                                                 (l.428-440)
EncoderStageRun(st, e) ==
    [grid |-> IF IsErr(e) THEN <<0, 0>> ELSE <<e[3], e[4]>>,
     out |-> StageBlocks(st, e)]

EncoderStageOut(st, xmap) == EncoderStageRun(st, PatchEmbed_forward(st.patch_embed, xmap))

\* DecoderStage walking the stages in encoder order
DecoderStage_Forward(i) == i + 1

\* the encoder stage whose saved output, block list, normalization and
\* tables decoder iteration i (0-based) uses: features[2 - i],
\* block{3 - i}, norm{3 - i}, relative_pos_index{3 - i}            (l.449-456)
DecoderStage(i) == 3 - i

\* self.up(x1): ConvTranspose2d(k=3, stride=2, padding=1, output_padding=1)
\* doubles H and W                                                 (l.299-303)
Up_up(up, x1) ==
    IF IsErr(x1) THEN Err
    ELSE IF x1[2] # up.in_channels THEN Err
    ELSE <<x1[1], up.out_channels, (x1[3] - 1) * 2 - 2 + 3 + 1, (x1[4] - 1) * 2 - 2 + 3 + 1>>

\* Up.forward: torch.cat([x2, self.up(x1)], dim=1)                 (l.302-305)
Up_forward(up, x1, x2) == Cat(x2, Up_up(up, x1), 2)

\* Covn.forward: a 1x1 convolution                                 (l.311-315)
Covn_forward(cov, xmap) == Conv2d(xmap, cov.in_channels, cov.out_channels, 1, 1, 0)

\* the rest of one iteration of up_features' loop, on stage record st
\*                                                                 (l.451-461)
DecoderBlocksOut(st, xmap) == StageBlocks(st, xmap)

\* up0 (bilinear upsample by 4, LeakyReLU) then outc               (l.370-375, l.469-470)
Head_forward(outc, xmap) ==
    IF IsErr(xmap) THEN Err
    ELSE Conv2d(<<xmap[1], xmap[2], 4 * xmap[3], 4 * xmap[4]>>,
                outc.in_channels, outc.out_channels, 1, 1, 0)

-----------------------------------------------------------------------------
(* The life of one TransNeXt object.                                       *)

\* a pure function not called (the state of the variables of SpecCpb,
\* SpecMask and SpecAttn outside their specification)
NoCall == [set |-> FALSE, done |-> FALSE]

ImgSizes == {32, 64}

PretrainSizes == {None, 64}

PatchSizes == {1, 2, 4}

WindowSizes == {<<3, 3, 3, None>>, <<3, 3, 3, 4>>, <<3, 2, 3, None>>, <<None, 3, 3, None>>}

SrRatios == {<<8, 4, 2, 1>>, <<4, 2, 1, 1>>, <<1, 1, 1, 1>>}

EmbedDims == {<<8, 16, 32, 64>>, <<8, 16, 24, 64>>}

NumHeads == {<<1, 2, 4, 8>>, <<1, 2, 4, 5>>}

Depths == {<<1, 1, 1, 1>>, <<2, 1, 1, 1>>}

NumClasses == {1, 3}

InChans == {1}

Configs ==
    [set : {TRUE}, img_size : ImgSizes, pretrain_size : PretrainSizes,
     window_size : WindowSizes, patch_size : PatchSizes, in_chans : InChans,
     num_classes : NumClasses, embed_dims : EmbedDims, num_heads : NumHeads,
     depths : Depths, sr_ratios : SrRatios]

InputChannels == {1, 3}

InputSizes == {32, 64, 128}

\* the tensors forward is called on: [B, C_in, H, W]
Inputs == (1..MaxBatch) \X InputChannels \X InputSizes \X InputSizes

Init ==
    /\ cfg \in Configs
    /\ model = [status |-> "none"]
    /\ pc = "idle"
    /\ input = <<>>
    /\ x = <<>>
    /\ features = <<>>
    /\ level = 0
    /\ trace = <<>>
    /\ cpbCalls = 0
    /\ maskCalls = 0
    /\ cpbArgs = NoCall /\ cpbOut = NoCall
    /\ maskArgs = NoCall /\ maskOut = NoCall
    /\ attnArgs = NoCall /\ attnOut = NoCall

\* __init__ with `bad` the first stage whose loop body raises (0: none)
ConstructTo(bad) ==
    IF bad = 0
    THEN /\ model' = ModelOf(cfg)
         /\ cpbCalls' = cpbCalls + num_stages
         /\ maskCalls' = maskCalls + MaskCallsUpTo(cfg, num_stages)
    ELSE /\ model' = [status |-> "error", stage |-> bad, error |-> StageError(cfg, bad)]
         /\ cpbCalls' = cpbCalls + bad
         /\ maskCalls' = maskCalls + MaskCallsUpTo(cfg, bad - 1)

\* TransNeXt.__init__: builds every stage in turn, or raises at the first
\* stage whose patch embedding or block refuses its arguments      (l.327-393)
Construct ==
    /\ cfg.set /\ model.status = "none"
    /\ ConstructTo(FirstBadStage(cfg))
    /\ UNCHANGED <<cfg, pc, input, x, features, level, trace, cpbVars, maskVars, attnVars>>

\* model(Input): forward is entered on a tensor                    (l.466-467, l.487)
ForwardCall ==
    /\ model.status = "built"
    /\ pc \in {"idle", "done", "error"}
    /\ \E shape \in Inputs :
          /\ input' = shape
          /\ x' = shape
    /\ features' = <<>>
    /\ level' = 0
    /\ trace' = <<>>
    /\ pc' = "encoder"
    /\ UNCHANGED <<cfg, model, cpbCalls, maskCalls, cpbVars, maskVars, attnVars>>

\* iteration i (1-based) of forward_features' loop ends with r     (l.437-441)
EncoderStageEnd(i, r) ==
    /\ trace' = Append(trace, [step |-> "encoder", level |-> level, stage |-> i,
                               grid |-> r.grid, shape |-> r.out])
    /\ IF IsErr(r.out)
       THEN /\ pc' = "error"
            /\ UNCHANGED <<x, features, level>>
       ELSE /\ x' = r.out
            /\ features' = Append(features, r.out)
            /\ level' = IF i = num_stages THEN 0 ELSE i
            /\ pc' = IF i = num_stages THEN "up" ELSE "encoder"

\* EncoderStage calling get_relative_position_cpb and get_seqlen_and_mask
\* again for the stage it runs
EncoderStage_Rebuild ==
    /\ pc = "encoder"
    /\ EncoderStageEnd(level + 1, EncoderStageOut(model.stages[level + 1], x))
    /\ cpbCalls' = cpbCalls + 1
    /\ maskCalls' = maskCalls + MaskCallsUpTo(cfg, level + 1) - MaskCallsUpTo(cfg, level)
    /\ UNCHANGED <<cfg, model, input, cpbVars, maskVars, attnVars>>

\* one iteration of the loop of forward_features                   (l.428-440)
EncoderStage ==
    /\ pc = "encoder"
    /\ EncoderStageEnd(level + 1, EncoderStageOut(model.stages[level + 1], x))
    /\ UNCHANGED <<cfg, model, input, cpbCalls, maskCalls, cpbVars, maskVars, attnVars>>

\* a step of up_features or of the head ends with shape r, and goes on at
\* `then` unless r is an exception
StepEnd(rec, r, then) ==
    /\ trace' = Append(trace, rec)
    /\ IF IsErr(r)
       THEN pc' = "error" /\ x' = x
       ELSE pc' = then /\ x' = r

\* x = up_(x, features[2 - i])                                     (l.447-449)
DecoderUp ==
    /\ pc = "up"
    /\ StepEnd([step |-> "up", level |-> level, stage |-> DecoderStage(level),
                upsampled |-> Up_up(model.up[level + 1], x),
                skip |-> features[DecoderStage(level)],
                shape |-> Up_forward(model.up[level + 1], x, features[DecoderStage(level)])],
               Up_forward(model.up[level + 1], x, features[DecoderStage(level)]),
               "cov")
    /\ UNCHANGED <<cfg, model, input, features, level, cpbCalls, maskCalls,
                   cpbVars, maskVars, attnVars>>

\* x = cov_(x)                                                     (l.448-450)
DecoderCov ==
    /\ pc = "cov"
    /\ StepEnd([step |-> "cov", level |-> level, stage |-> DecoderStage(level),
                shape |-> Covn_forward(model.cov[level + 1], x)],
               Covn_forward(model.cov[level + 1], x),
               "blocks")
    /\ UNCHANGED <<cfg, model, input, features, level, cpbCalls, maskCalls,
                   cpbVars, maskVars, attnVars>>

\* iteration i (0-based) of up_features' loop ends with r on stage record st
DecoderBlocksEnd(i, st, r) ==
    /\ trace' = Append(trace, [step |-> "blocks", level |-> i, stage |-> DecoderStage(i),
                               block |-> st.block, norm |-> st.norm,
                               buffers |-> st.buffers, shape |-> r])
    /\ IF IsErr(r)
       THEN pc' = "error" /\ UNCHANGED <<x, level>>
       ELSE /\ x' = r
            /\ level' = i + 1
            /\ pc' = IF i + 1 = num_stages - 1 THEN "head" ELSE "up"

\* the blocks, normalization and tables of stage 3 - i, run on x  (l.451-461)
DecoderBlocks ==
    /\ pc = "blocks"
    /\ DecoderBlocksEnd(level, model.stages[DecoderStage(level)],
                        DecoderBlocksOut(model.stages[DecoderStage(level)], x))
    /\ UNCHANGED <<cfg, model, input, features, cpbCalls, maskCalls,
                   cpbVars, maskVars, attnVars>>

\* x = self.up0(x); x = self.outc(x); return x                     (l.469-471)
OutputHead ==
    /\ pc = "head"
    /\ StepEnd([step |-> "head", level |-> level, shape |-> Head_forward(model.outc, x)],
               Head_forward(model.outc, x),
               "done")
    /\ UNCHANGED <<cfg, model, input, features, level, cpbCalls, maskCalls,
                   cpbVars, maskVars, attnVars>>

Next ==
    \/ Construct
    \/ ForwardCall
    \/ EncoderStage
    \/ DecoderUp
    \/ DecoderCov
    \/ DecoderBlocks
    \/ OutputHead

Spec == Init /\ [][Next]_vars

-----------------------------------------------------------------------------
(* Specifications of the three pure functions.                             *)

\* the variables of the object's life, at rest
LifeAtRest ==
    /\ cfg = [set |-> FALSE]
    /\ model = [status |-> "none"]
    /\ pc = "idle"
    /\ input = <<>>
    /\ x = <<>>
    /\ features = <<>>
    /\ level = 0
    /\ trace = <<>>
    /\ cpbCalls = 0
    /\ maskCalls = 0

Grids == (1..MaxGrid) \X (1..MaxGrid)

\* pretraining grids: pretrain_size - 1 divides, so both sides are at least 2
PretrainGrids == (2..MaxGrid) \X (2..MaxGrid)

InitCpb ==
    /\ LifeAtRest
    /\ cpbArgs \in [set : {TRUE}, query_size : Grids, key_size : Grids,
                    pretrain_size : PretrainGrids]
    /\ cpbOut = NoCall
    /\ maskArgs = NoCall /\ maskOut = NoCall
    /\ attnArgs = NoCall /\ attnOut = NoCall

CallCpb ==
    /\ cpbArgs.set /\ ~cpbOut.done
    /\ cpbOut' = [done |-> TRUE,
                  ret |-> get_relative_position_cpb(cpbArgs.query_size, cpbArgs.key_size,
                                                    cpbArgs.pretrain_size)]
    /\ UNCHANGED <<lifeVars, cpbArgs, maskVars, attnVars>>

NextCpb == CallCpb

SpecCpb == InitCpb /\ [][NextCpb]_vars

Resolutions == (1..MaxRes) \X (1..MaxRes)

\* the odd window sizes (line 93 lets no other reach get_seqlen_and_mask)
OddWindows == {2 * h + 1 : h \in 0..MaxHalfWin}

InitMask ==
    /\ LifeAtRest
    /\ maskArgs \in [set : {TRUE}, input_resolution : Resolutions, window_size : OddWindows]
    /\ maskOut = NoCall
    /\ cpbArgs = NoCall /\ cpbOut = NoCall
    /\ attnArgs = NoCall /\ attnOut = NoCall

CallMask ==
    /\ maskArgs.set /\ ~maskOut.done
    /\ maskOut' = [done |-> TRUE,
                   ret |-> get_seqlen_and_mask(maskArgs.input_resolution, maskArgs.window_size)]
    /\ UNCHANGED <<lifeVars, maskArgs, cpbVars, attnVars>>

NextMask == CallMask

SpecMask == InitMask /\ [][NextMask]_vars

\* the values a score takes
ScoreVals == {0, 1}

\* numbers of pooled keys
PoolLens == {0, 1, 2}

\* numbers of keys of plain attention
PlainLens == {1, 2, 3, 4}

\* window sizes of aggregated attention
AttnWindows == {1, 3}

AttnResolutions == (1..MaxAttnRes) \X (1..MaxAttnRes)

PlainArgs ==
    UNION {[set : {TRUE}, kind : {"plain"}, scores : [1..n -> ScoreVals]] : n \in PlainLens}

AggregatedArgs ==
    UNION {[set : {TRUE}, kind : {"aggregated"}, input_resolution : {r}, window_size : {w},
            l : 1..(r[1] * r[2]), local : [1..(w * w) -> ScoreVals],
            pool : [1..n -> ScoreVals]]
           : <<r, w, n>> \in AttnResolutions \X AttnWindows \X PoolLens}

InitAttn ==
    /\ LifeAtRest
    /\ attnArgs \in PlainArgs \cup AggregatedArgs
    /\ attnOut = NoCall
    /\ cpbArgs = NoCall /\ cpbOut = NoCall
    /\ maskArgs = NoCall /\ maskOut = NoCall

CallPlain ==
    /\ attnArgs.set /\ ~attnOut.done
    /\ attnArgs.kind = "plain"
    /\ attnOut' = [done |-> TRUE, attn |-> PlainWeights(attnArgs.scores)]
    /\ UNCHANGED <<lifeVars, attnArgs, cpbVars, maskVars>>

CallAggregated ==
    /\ attnArgs.set /\ ~attnOut.done
    /\ attnArgs.kind = "aggregated"
    /\ LET g == get_seqlen_and_mask(attnArgs.input_resolution, attnArgs.window_size)
           w == AggregatedWeights(g.attn_mask, attnArgs.l, attnArgs.local, attnArgs.pool)
       IN  attnOut' = [done |-> TRUE, attn |-> w.attn, attn_local |-> w.attn_local,
                       attn_pool |-> w.attn_pool, padding_mask |-> g.attn_mask[attnArgs.l]]
    /\ UNCHANGED <<lifeVars, attnArgs, cpbVars, maskVars>>

NextAttn == CallPlain \/ CallAggregated

SpecAttn == InitAttn /\ [][NextAttn]_vars

-----------------------------------------------------------------------------
(* Properties of the pure functions.                                       *)

\* the query coordinates a key cell j (0-based) of an axis pooled from L to
\* `out` cells covers: those whose unit cell overlaps [j*L/out, (j+1)*L/out)
KeyCover(j, L, out) == {i \in 0..(L - 1) : (i + 1) * out > j * L /\ i * out < (j + 1) * L}

RECURSIVE SumSet(_)
SumSet(S) == IF S = {} THEN 0 ELSE LET e == CHOOSE e \in S : TRUE IN e + SumSet(S \ {e})

\* entry c of a table row holds the compressed offset, along an axis with L
\* query cells pooled to `out` key cells and pretraining extent p, between
\* query coordinate qi and the centre of key cell kj:
\* sgn * (arg_num/arg_den - 1) = (qi - mean(cover)) / (p - 1) * 8
HoldsOffset(c, qi, kj, L, out, p) ==
    LET cover == KeyCover(kj, L, out)
        n == Cardinality(cover)
    IN  /\ c.arg_den = 2 * (p - 1)
        /\ c.sgn * (c.arg_num - c.arg_den) * n = (2 * qi * n - 2 * SumSet(cover)) * 8

C5_MaskMarksOutside ==
    maskOut.done =>
        LET H == maskArgs.input_resolution[1]
            W == maskArgs.input_resolution[2]
            w == maskArgs.window_size
            len  == maskOut.ret.attn_local_length
            mask == maskOut.ret.attn_mask
            Inside(r, c) == r >= 0 /\ r < H /\ c >= 0 /\ c < W
        IN  /\ Len(mask) = H * W /\ Len(len) = H * W
            /\ \A r \in 0..(H - 1), c \in 0..(W - 1) :
                  LET l == r * W + c + 1
                  IN  /\ Len(mask[l]) = w * w
                      /\ \A dr \in 0..(w - 1), dc \in 0..(w - 1) :
                            mask[l][dr * w + dc + 1]
                                <=> ~Inside(r + dr - (w \div 2), c + dc - (w \div 2))
                      /\ len[l] = Cardinality({s \in 1..(w * w) : ~mask[l][s]})
                      /\ (w >= 3 /\ r \in {0, H - 1} /\ c \in {0, W - 1}) => len[l] < w * w

\* C5 witness: a 3x3 window on a grid with interior positions: the corner
\* has 4 valid neighbors, the centre all 9
C5_Witness ==
    /\ maskOut.done
    /\ maskArgs.window_size = 3 /\ maskArgs.input_resolution = <<3, 4>>
    /\ maskOut.ret.attn_local_length[1] = 4
    /\ maskOut.ret.attn_mask[1][1]
    /\ maskOut.ret.attn_local_length[6] = 9

\* C6: the attention weights of a query sum to 1 over the full key axis (the
\* N keys of plain attention; the local_len + pool_len keys of aggregated
\* attention jointly, a border-padded local slot having weight 0).
C6_WeightsSumToOne ==
    attnOut.done =>
        /\ RatSum(attnOut.attn) = <<1, 1>>
        /\ \A k \in DOMAIN attnOut.attn : attnOut.attn[k][1] >= 0
        /\ attnArgs.kind = "plain" => Len(attnOut.attn) = Len(attnArgs.scores)
        /\ attnArgs.kind = "aggregated" =>
              /\ Len(attnOut.attn) = Len(attnArgs.local) + Len(attnArgs.pool)
              /\ attnOut.attn = attnOut.attn_local \o attnOut.attn_pool
              /\ \A s \in DOMAIN attnOut.padding_mask :
                    attnOut.padding_mask[s] => attnOut.attn[s] = <<0, 1>>

\* C6 witness: an aggregated-attention query at a grid corner, with padded
\* local slots and pooled keys that both take part of the mass
C6_Witness ==
    /\ attnOut.done
    /\ attnArgs.kind = "aggregated"
    /\ attnArgs.window_size = 3 /\ attnArgs.input_resolution = <<2, 2>>
    /\ Len(attnArgs.pool) = 2
    /\ attnOut.padding_mask[1]
    /\ RatSum(attnOut.attn_pool)[1] > 0
    /\ RatSum(attnOut.attn_local)[1] > 0

-----------------------------------------------------------------------------
(* Properties of the object's life.                                        *)

\* the shapes of a whole forward pass of model m on input inp, as one value:
\* the four encoder stages, then up, cov and blocks of the three decoder
\* levels, then the head
RECURSIVE EncShapes(_, _, _)
EncShapes(m, xmap, i) ==
    IF i > num_stages THEN <<>>
    ELSE LET o == EncoderStageOut(m.stages[i], xmap).out
         IN  <<o>> \o EncShapes(m, o, i + 1)

RECURSIVE DecShapes(_, _, _, _)
DecShapes(m, f, xmap, i) ==
    IF i >= num_stages - 1 THEN <<>>
    ELSE LET u == Up_forward(m.up[i + 1], xmap, f[3 - i])
             c == Covn_forward(m.cov[i + 1], u)
             b == StageBlocks(m.stages[3 - i], c)
         IN  <<u, c, b>> \o DecShapes(m, f, b, i + 1)

ForwardShapes(m, inp) ==
    LET enc == EncShapes(m, inp, 1)
        dec == DecShapes(m, enc, enc[num_stages], 0)
    IN  enc \o dec \o <<Head_forward(m.outc, dec[Len(dec)])>>

\* the shapes the current forward call produced, step by step
TraceShapes == [n \in DOMAIN trace |-> trace[n].shape]

\* C1: forward returns a tensor of shape (B, num_output_channels, H, W), H
\* and W being those of the input and the channel count the configured number
\* of output channels.
C1_OutputShape ==
    pc = "done" => x = <<input[1], cfg.num_classes, input[3], input[4]>>

\* a configuration in which some stage's channel count is not divisible by
\* its head count, or some stage's window size is even, or a patch size does
\* not exceed its stride
BadConfig(c) ==
    \E i \in 1..num_stages :
        \/ c.embed_dims[i] % c.num_heads[i] # 0
        \/ (c.window_size[i] # None /\ c.window_size[i] % 2 = 0)
        \/ (IF i = 1 THEN c.patch_size * 2 - 1 <= c.patch_size ELSE 3 <= 2)

\* C2: constructing the model with such a configuration always ends in a
\* construction-time error and never yields a usable model.
C2_BadConfigRejected ==
    (BadConfig(cfg) /\ model.status # "none") => model.status = "error"

\* C3: a forward call in which some stage's actual grid differs from the grid
\* that stage's window mask, sequence-length scale and relative-position
\* index were built for ends in an error; it never returns an output.
C3_MismatchRaises ==
    pc = "done" =>
        \A n \in 1..num_stages :
            trace[n].grid = <<StageResolution(cfg, n), StageResolution(cfg, n)>>

\* C7: two models whose configurations differ only in the number of output
\* classes have identical shapes at every intermediate step of forward, and
\* their outputs differ only in channel count, which equals each model's
\* configured number of output channels.
C7_OnlyOutputChannels ==
    pc = "done" =>
        \A nc \in NumClasses :
            LET o == ForwardShapes(ModelOf([cfg EXCEPT !.num_classes = nc]), input)
            IN  /\ SubSeq(o, 1, Len(o) - 1) = SubSeq(TraceShapes, 1, Len(trace) - 1)
                /\ o[Len(o)] = [x EXCEPT ![2] = nc]
                /\ x[2] = cfg.num_classes

\* the number of AggregatedAttention modules of a built model
AggregatedModules(m) ==
    SumSeq([i \in 1..num_stages |->
               Cardinality({j \in DOMAIN m.stages[i].block :
                               m.stages[i].block[j].kind = "aggregated"})])

\* C8: the per-stage index maps and tables, and each aggregated-attention
\* module's padding mask and sequence-length scale, are computed exactly once,
\* during construction; no step of any forward call changes them or calls
\* their builders again.
C8_BuffersBuiltOnce ==
    /\ [](model.status = "built" =>
            /\ cpbCalls = num_stages
            /\ maskCalls = AggregatedModules(model)
            /\ \A i \in 1..num_stages :
                  model.stages[i].buffers.builtFrom = CpbArgsOf(cfg, i))
    /\ [][model.status = "built" =>
            /\ model' = model
            /\ cpbCalls' = cpbCalls
            /\ maskCalls' = maskCalls]_vars

\* C8 witness: a second forward call has returned on a model with
\* aggregated-attention modules, the builders having been called 4 and 4 times
C8_Witness ==
    /\ pc = "done"
    /\ input = <<2, 1, 64, 64>>
    /\ cfg.depths = <<2, 1, 1, 1>>
    /\ cpbCalls = 4 /\ maskCalls = 4

C10_AttentionKindFixed ==
    model.status = "built" =>
        \A i \in 1..num_stages :
            /\ Len(model.stages[i].block) = cfg.depths[i]
            /\ \A j \in DOMAIN model.stages[i].block :
                  LET a == model.stages[i].block[j]
                  IN  /\ cfg.window_size[i] = None => a.kind = "plain"
                      /\ cfg.sr_ratios[i] > 1 =>
                            a.kind = "aggregated" /\ a.window_size = cfg.window_size[i]

\* C10 witness: a forward call has returned on a model with three
\* aggregated stages and a plain last stage
C10_Witness ==
    /\ pc = "done"
    /\ cfg.window_size = <<3, 3, 3, None>> /\ cfg.sr_ratios = <<8, 4, 2, 1>>
    /\ model.stages[1].block[1].kind = "aggregated"
    /\ model.stages[4].block[1].kind = "plain"

\* the grid of keys one attention module of a stage of resolution r scores
\* its queries against: the pooled grid of aggregated attention, the full
\* token grid of plain attention
KeysScored(att, r) ==
    IF att.kind = "aggregated" THEN <<att.pool_H, att.pool_W>> ELSE <<r, r>>

\* C11: for every stage of a constructed model, the key grid the stage's
\* relative-position index map was built from is the grid of keys the stage's
\* attention scores against (pool_H x pool_W for aggregated attention, the
\* full token grid for plain attention), so the index map has exactly
\* N x key_count entries.
C11_KeyGridMatchesKeys ==
    model.status = "built" =>
        \A i \in 1..num_stages : \A j \in DOMAIN model.stages[i].block :
            LET b   == model.stages[i].buffers
                r   == StageResolution(cfg, i)
                k   == KeysScored(model.stages[i].block[j], r)
            IN  /\ b.builtFrom.key_size = k
                /\ b.index_numel = (r * r) * (k[1] * k[2])

====
